---------------------------- MODULE Spec2Model ----------------------------
(***************************************************************************)
(* EcoSnap: the classify-waste edge function (Classification Gateway) and  *)
(* the Auth page (Session Gate).                                           *)
(*                                                                         *)
(*   supabase/functions/classify-waste/index.ts   serve handler            *)
(*   src/pages/Auth.tsx                           Auth component           *)
(*                                                                         *)
(* The two components share no state.  SpecGateway runs the serve handler, *)
(* SpecAuth runs the Auth component's handlers.                            *)
(***************************************************************************)
EXTENDS Integers, Sequences, FiniteSets, TLC

VARIABLES
    gwPc,        \* serve handler position: "idle", "fetching" (await fetch), "responded"
    gwReq,       \* the request being served
    gwKey,       \* Deno.env.get("LOVABLE_API_KEY") is set
    gwFetches,   \* fetch() calls issued for the request being served
    gwUpstream,  \* what the fetch produced for this request
    gwResp       \* the Response returned for this request

gwVars == <<gwPc, gwReq, gwKey, gwFetches, gwUpstream, gwResp>>

VARIABLES
    isLogin,     \* useState(true)
    useOTP,      \* useState(false)
    email,       \* useState("")
    password,    \* useState("")
    otp,         \* useState("")
    otpSent,     \* useState(false)
    loading,     \* useState(false)
    subs         \* the submissions so far, in the order their handlers started:
                 \* for each, the provider call it issued and how that settled,
                 \* and the toast() calls it made

authVars == <<isLogin, useOTP, email, password, otp, otpSent, loading, subs>>

VARIABLES
    view,          \* the Auth view: "rendered" (effect not run yet), "mounted", "unmounted"
    session,       \* the identity provider holds a session
    effectRuns,    \* times the body of the useEffect has run
    subscriptions, \* onAuthStateChange subscriptions that are active, by effect run
    checks,        \* getSession() promises not settled yet
    reports        \* what the provider reported to the view's callbacks, in order,
                   \* each with the number of navigate("/demo") calls it caused

mountVars == <<view, session, effectRuns, subscriptions, checks, reports>>

vars == <<gwVars, authVars, mountVars>>

(***************************************************************************)
(* JavaScript values, as far as the handler looks at them.                 *)
(* k is the type tag; n the number (or the number a numeric string reads   *)
(* as); s the string.                                                      *)
(***************************************************************************)
JNum(n)   == [k |-> "num", n |-> n, s |-> ""]
JStr(s)   == [k |-> "str", n |-> 0, s |-> s]
JNull     == [k |-> "null", n |-> 0, s |-> ""]
JUndef    == [k |-> "undefined", n |-> 0, s |-> ""]
JNaN      == [k |-> "nan", n |-> 0, s |-> ""]

\* Strings that read as a number under ToNumber; every other string reads as NaN.
NumericString(s) == s \in {"85", "250"}
StringToNumber(s) == IF s = "85" THEN 85 ELSE 250

\* ToNumber, applied by the "/" of classification.confidence / 100.
ToNumber(v) ==
    CASE v.k = "num"       -> v
      [] v.k = "null"      -> JNum(0)
      [] v.k = "str"       -> IF NumericString(v.s) THEN JNum(StringToNumber(v.s)) ELSE JNaN
      [] OTHER             -> JNaN

\* JSON.stringify of an object property: undefined drops the key, NaN prints null.
Stringify(v) ==
    CASE v.k = "nan" -> JNull
      [] OTHER       -> v

(***************************************************************************)
(* The model's reply text, as a sequence of tokens: "bt" is three          *)
(* backticks, "json" the word json, "nl" a newline, "sp" a blank, "junk"   *)
(* any other prose, "val" one JSON value (v).                              *)
(***************************************************************************)
NoValue == [k |-> "none", category |-> JUndef, confidence |-> JUndef, reasoning |-> JUndef]
Tok(t)  == [t |-> t, v |-> NoValue]
Val(v)  == [t |-> "val", v |-> v]

Obj(cat, conf) ==
    [k |-> "object", category |-> cat, confidence |-> conf, reasoning |-> JStr("why")]
JsonNull   == [k |-> "null", category |-> JUndef, confidence |-> JUndef, reasoning |-> JUndef]
JsonNumber == [k |-> "number", category |-> JUndef, confidence |-> JUndef, reasoning |-> JUndef]

Drop(s, n) == SubSeq(s, n + 1, Len(s))

\* aiResponse.replace(/```json\n?|\n?```/g, ''): leftmost match, first alternative first.
RECURSIVE StripFences(_)
StripFences(s) ==
    IF s = <<>> THEN <<>>
    ELSE IF s[1].t = "bt" /\ Len(s) >= 2 /\ s[2].t = "json"
         THEN StripFences(Drop(s, IF Len(s) >= 3 /\ s[3].t = "nl" THEN 3 ELSE 2))
    ELSE IF s[1].t = "nl" /\ Len(s) >= 2 /\ s[2].t = "bt"
         THEN StripFences(Drop(s, 2))
    ELSE IF s[1].t = "bt"
         THEN StripFences(Drop(s, 1))
    ELSE <<s[1]>> \o StripFences(Tail(s))

IsSpace(tok) == tok.t \in {"nl", "sp"}

\* String.prototype.trim
RECURSIVE TrimStart(_)
TrimStart(s) == IF s # <<>> /\ IsSpace(s[1]) THEN TrimStart(Tail(s)) ELSE s
RECURSIVE TrimEnd(_)
TrimEnd(s) ==
    IF s # <<>> /\ IsSpace(s[Len(s)]) THEN TrimEnd(SubSeq(s, 1, Len(s) - 1)) ELSE s
TrimTokens(s) == TrimEnd(TrimStart(s))

cleanedResponse(aiResponse) == TrimTokens(StripFences(aiResponse))

\* JSON.parse succeeds on exactly one JSON value (blanks around it were trimmed).
ParseOk(text) == Len(text) = 1 /\ text[1].t = "val"
JSONParse(text) == text[1].v

(***************************************************************************)
(* Category validation and the credit computation.                         *)
(***************************************************************************)
validCategories == {"recyclable", "organic", "hazardous", "general"}

\* validCategories.includes(x): strict equality with one of the four strings.
IncludesLoose(x) ==
    x.k = "str" /\ x.s \in (validCategories \cup {"Recyclable", "ORGANIC"})
Includes(x) == x.k = "str" /\ x.s \in validCategories

baseCredits == 10

\* Math.round in the place of Math.floor.
confidenceBonusRounded(confidence) ==
    LET c == ToNumber(confidence)
    IN  IF c.k = "num" THEN JNum((c.n * 5 + 50) \div 100) ELSE JNaN

\* Math.floor((confidence / 100) * 5); on integers the double arithmetic agrees
\* with the exact quotient, and \div rounds towards minus infinity as Math.floor.
confidenceBonus(confidence) ==
    LET c == ToNumber(confidence)
    IN  IF c.k = "num" THEN JNum((c.n * 5) \div 100) ELSE JNaN

creditsEarned(confidence) ==
    LET b == confidenceBonus(confidence)
    IN  IF b.k = "num" THEN JNum(baseCredits + b.n) ELSE JNaN

(***************************************************************************)
(* Responses.                                                              *)
(***************************************************************************)
NoBody == [kind |-> "null", error |-> "", code |-> 0,
           category |-> JUndef, confidence |-> JUndef,
           reasoning |-> JUndef, creditsEarned |-> JUndef]

\* new Response(null, { headers: corsHeaders }): status defaults to 200.
PreflightResponse == [status |-> 200, body |-> NoBody]

\* JSON.stringify({ error: msg }) with the given status; code is the number
\* interpolated into the message, 0 when there is none.
ErrorResponse(status, msg, code) ==
    [status |-> status, body |-> [NoBody EXCEPT !.kind = "error", !.error = msg, !.code = code]]

\* the catch block: every thrown error becomes a 500 carrying error.message.
CatchAll(msg, code) == ErrorResponse(500, msg, code)

\* the success Response: no status given, so 200.
ResultResponse(classification) ==
    [status |-> 200,
     body |-> [NoBody EXCEPT
                 !.kind = "result",
                 !.category = Stringify(classification.category),
                 !.confidence = Stringify(classification.confidence),
                 !.reasoning = Stringify(classification.reasoning),
                 !.creditsEarned = Stringify(creditsEarned(classification.confidence))]]


(***************************************************************************)
(* Inputs of the serve handler: requests and what the AI gateway answers.  *)
(***************************************************************************)
ConfSlack == 20

Methods == {"OPTIONS", "POST"}

\* req.json() either throws (json = FALSE) or yields an object whose imageBase64
\* is absent, null, empty or a data URL.
Images == {JUndef, JNull, JStr(""), JStr("data:image/png;base64,AAAA")}
Requests ==
    {[method |-> m, json |-> TRUE, imageBase64 |-> i] : m \in Methods, i \in Images}
    \cup {[method |-> "POST", json |-> FALSE, imageBase64 |-> JUndef]}
NoRequest == [method |-> "", json |-> FALSE, imageBase64 |-> JUndef]

Categories ==
    {JStr(c) : c \in validCategories \cup {"plastic", "Recyclable", ""}}
    \cup {JNull, JUndef, JNum(1)}
Confidences ==
    {JNum(n) : n \in (0 - ConfSlack) .. (100 + ConfSlack)}
    \cup {JUndef, JNull, JStr("85"), JStr("high")}
Payloads ==
    {Obj(c, f) : c \in Categories, f \in Confidences} \cup {JsonNull, JsonNumber}

\* The shapes the reply text takes around one JSON value.
Wrappings(v) ==
    { <<Val(v)>>,
      <<Tok("bt"), Tok("json"), Tok("nl"), Val(v), Tok("nl"), Tok("bt")>>,
      <<Tok("bt"), Tok("nl"), Val(v), Tok("nl"), Tok("bt")>>,
      <<Tok("nl"), Tok("bt"), Tok("json"), Tok("nl"), Val(v), Tok("nl"), Tok("bt")>>,
      <<Tok("junk"), Tok("sp"), Val(v)>> }
ModelTexts ==
    UNION {Wrappings(v) : v \in Payloads} \cup {<<>>, <<Tok("junk")>>}

\* What the fetch produces: a rejection (network error) or an HTTP response.
\* shape: "text" (choices[0].message.content is the string content), "notjson"
\* (response.json() throws), "nochoices" (no choices array), "nullcontent"
\* (content is null).
NoUpstream == [kind |-> "none", status |-> 0, shape |-> "", content |-> <<>>]
Statuses == {200, 400, 402, 429, 500, 503}
Upstreams ==
    {[kind |-> "network_error", status |-> 0, shape |-> "", content |-> <<>>]}
    \cup {[kind |-> "response", status |-> st, shape |-> "", content |-> <<>>] :
             st \in Statuses \ {200}}
    \cup {[kind |-> "response", status |-> 200, shape |-> sh, content |-> <<>>] :
             sh \in {"notjson", "nochoices", "nullcontent"}}
    \cup {[kind |-> "response", status |-> 200, shape |-> "text", content |-> c] :
             c \in ModelTexts}

NoResponse == [status |-> 0, body |-> NoBody]

(***************************************************************************)
(* The serve handler.                                                      *)
(***************************************************************************)
\* !imageBase64
FalsyUndefinedOnly(v) == v.k = "undefined"
Falsy(v) == v.k \in {"undefined", "null", "nan"} \/ (v.k = "str" /\ v.s = "")
             \/ (v.k = "num" /\ v.n = 0)

\* response.ok
Ok(status) == status >= 200 /\ status <= 299

\* Lines 97-127: the reply of an ok response, up to the Response returned.
Classify(up) ==
    IF up.shape = "notjson" THEN CatchAll("Unexpected token in JSON", 0)
    ELSE IF up.shape \in {"nochoices", "nullcontent"}
         THEN CatchAll("Cannot read properties", 0)
    ELSE LET cleaned == cleanedResponse(up.content) IN
         IF ~ParseOk(cleaned) THEN CatchAll("Unexpected token in JSON", 0)
         ELSE LET classification == JSONParse(cleaned) IN
              IF classification.k = "null" THEN CatchAll("Cannot read properties", 0)
              ELSE IF ~Includes(classification.category)
                   THEN CatchAll("Invalid category returned by AI", 0)
              ELSE ResultResponse(classification)

\* Lines 72-95: a response that is not ok.
NotOkGeneric(status) == CatchAll("AI gateway error", status)
NotOk(status) ==
    IF status = 429
    THEN ErrorResponse(429, "Rate limit exceeded. Please try again later.", 0)
    ELSE IF status = 402
    THEN ErrorResponse(402, "AI credits depleted. Please add credits to continue.", 0)
    ELSE CatchAll("AI gateway error", status)

\* Lines 29-127 after the await: the Response for what the fetch produced.
Respond(up) ==
    IF up.kind = "network_error" THEN CatchAll("fetch failed", 0)
    ELSE IF ~Ok(up.status) THEN NotOk(up.status)
    ELSE Classify(up)

\* Lines 10-24: what the handler returns before any fetch, or NoResponse when
\* it goes on to the fetch.
BeforeFetch(req, key) ==
    IF req.method = "OPTIONS" THEN PreflightResponse
    ELSE IF ~req.json THEN CatchAll("Unexpected end of JSON input", 0)
    ELSE IF Falsy(req.imageBase64) THEN CatchAll("No image provided", 0)
    ELSE IF ~key THEN CatchAll("LOVABLE_API_KEY not configured", 0)
    ELSE NoResponse

\* A request arrives; the handler runs to its first return or to the await fetch.
Receive(req) ==
    /\ gwPc \in {"idle", "responded"}
    /\ gwReq' = req
    /\ gwUpstream' = NoUpstream
    /\ LET early == BeforeFetch(req, gwKey) IN
         IF early # NoResponse
         THEN /\ gwPc' = "responded"
              /\ gwFetches' = 0
              /\ gwResp' = early
         ELSE /\ gwPc' = "fetching"
              /\ gwFetches' = 1
              /\ gwResp' = NoResponse
    /\ UNCHANGED <<gwKey, authVars, mountVars>>

\* After the await: one Response, and the handler is over (no loop, no second fetch).
AfterFetchRetry(up) ==
    IF up.kind = "response" /\ up.status >= 500 /\ gwFetches < 2
    THEN [pc |-> "fetching", fetches |-> gwFetches + 1, resp |-> NoResponse]
    ELSE [pc |-> "responded", fetches |-> gwFetches, resp |-> Respond(up)]
AfterFetch(up) ==
    [pc |-> "responded", fetches |-> gwFetches, resp |-> Respond(up)]

\* The fetch settles.
FetchReturns ==
    /\ gwPc = "fetching"
    /\ \E up \in Upstreams :
         /\ gwUpstream' = up
         /\ LET next == AfterFetch(up) IN
              /\ gwPc' = next.pc
              /\ gwFetches' = next.fetches
              /\ gwResp' = next.resp
    /\ UNCHANGED <<gwReq, gwKey, authVars, mountVars>>

GatewayInit ==
    /\ gwPc = "idle"
    /\ gwReq = NoRequest
    /\ gwKey \in BOOLEAN
    /\ gwFetches = 0
    /\ gwUpstream = NoUpstream
    /\ gwResp = NoResponse

GatewayNext ==
    \/ \E req \in Requests : Receive(req)
    \/ FetchReturns

(***************************************************************************)
(* Strings of the Auth page, run-length encoded: a sequence of runs, each  *)
(* a character c repeated n >= 1 times, adjacent runs of different         *)
(* characters.  "a" stands for a letter, " " for white space.              *)
(***************************************************************************)
Run(c, n) == [c |-> c, n |-> n]
Empty == <<>>

RECURSIVE StrLen(_)
StrLen(s) == IF s = <<>> THEN 0 ELSE s[1].n + StrLen(Tail(s))

\* String.prototype.trim on runs
RECURSIVE TrimLeft(_)
TrimLeft(s) == IF s # <<>> /\ s[1].c = " " THEN TrimLeft(Tail(s)) ELSE s
RECURSIVE TrimRight(_)
TrimRight(s) ==
    IF s # <<>> /\ s[Len(s)].c = " " THEN TrimRight(SubSeq(s, 1, Len(s) - 1)) ELSE s
Trim(s) == TrimRight(TrimLeft(s))

\* Index of the first "@" run, 0 when there is none.
AtIndex(s) ==
    IF \E i \in 1..Len(s) : s[i].c = "@"
    THEN CHOOSE i \in 1..Len(s) : s[i].c = "@" /\ \A j \in 1..(i - 1) : s[j].c # "@"
    ELSE 0

\* zod's .email(): letters and single dots, one "@", a local part that neither
\* starts nor ends with a dot, a domain of dot-separated labels whose last one
\* has two letters or more.
IsEmail(s) ==
    LET at == AtIndex(s) IN
    /\ at > 1 /\ at < Len(s)
    /\ \A i \in 1..Len(s) :
          /\ s[i].c \in {"a", ".", "@"}
          /\ (s[i].c = "@") => (i = at /\ s[i].n = 1)
          /\ (s[i].c = ".") => s[i].n = 1
    /\ s[1].c = "a" /\ s[at - 1].c = "a"
    /\ s[at + 1].c = "a"
    /\ \E i \in (at + 1)..Len(s) : s[i].c = "."
    /\ s[Len(s)].c = "a" /\ s[Len(s)].n >= 2

MaxEmailLen    == 255
MinPasswordLen == 6
MaxPasswordLen == 100
OtpLen         == 6

\* z.string().email("Invalid email address").max(255): the issues, in order.
emailIssuesOffByOne(e) ==
    (IF IsEmail(e) THEN <<>> ELSE <<"Invalid email address">>)
    \o (IF StrLen(e) > MaxEmailLen + 1
        THEN <<"String must contain at most 255 character(s)">> ELSE <<>>)
emailIssues(e) ==
    (IF IsEmail(e) THEN <<>> ELSE <<"Invalid email address">>)
    \o (IF StrLen(e) > MaxEmailLen
        THEN <<"String must contain at most 255 character(s)">> ELSE <<>>)

\* z.string().min(6, "Password must be at least 6 characters").max(100)
passwordIssues(p) ==
    (IF StrLen(p) < MinPasswordLen
     THEN <<"Password must be at least 6 characters">> ELSE <<>>)
    \o (IF StrLen(p) > MaxPasswordLen
        THEN <<"String must contain at most 100 character(s)">> ELSE <<>>)

\* authSchema.parse({ email, password }): email issues first.
authSchemaIssues(e, p) == emailIssues(e) \o passwordIssues(p)

(***************************************************************************)
(* Toasts and provider calls.                                              *)
(***************************************************************************)
Toast(title, description, variant) ==
    [title |-> title, description |-> description, variant |-> variant]

\* the ZodError branch of a catch block: error.errors[0].message
ValidationToast(issues) == Toast("Validation error", issues[1], "destructive")

\* A submission that ended before any provider call, with the toasts it made.
Rejected(handler, ts) ==
    [handler |-> handler, op |-> "none", email |-> Empty, secret |-> Empty,
     status |-> "rejected", message |-> "", toasts |-> ts]

\* A submission suspended at its provider call op(e, secret).
Calling(handler, op, e, secret) ==
    [handler |-> handler, op |-> op, email |-> e, secret |-> secret,
     status |-> "pending", message |-> "", toasts |-> <<>>]

Pending(handler) ==
    {i \in 1..Len(subs) : subs[i].status = "pending" /\ subs[i].handler = handler}

\* What the provider answers: no error, or an error with its message.
ProviderMessages == {"Invalid login credentials"}
Outcomes ==
    {[status |-> "ok", message |-> ""]}
    \cup {[status |-> "error", message |-> m] : m \in ProviderMessages}

\* Submission i's call settled with out, and its handler made the toasts ts.
Settle(i, out, ts) ==
    [subs EXCEPT ![i].status = out.status, ![i].message = out.message,
                 ![i].toasts = @ \o ts]

(***************************************************************************)
(* Inputs: what the user can type.                                         *)
(***************************************************************************)
MaxSubmissions == 2

GoodEmail   == <<Run("a", 1), Run("@", 1), Run("a", 1), Run(".", 1), Run("a", 2)>>
\* 255 characters once trimmed, 258 as typed
PaddedEmail == <<Run(" ", 2), Run("a", 250), Run("@", 1), Run("a", 1), Run(".", 1),
                 Run("a", 2), Run(" ", 1)>>
\* 256 characters, well-formed
LongEmail   == <<Run("a", 251), Run("@", 1), Run("a", 1), Run(".", 1), Run("a", 2)>>
Emails      == {Empty, GoodEmail, PaddedEmail, LongEmail}

Passwords   == {Empty} \cup {<<Run("p", n)>> : n \in {6, 101}}
Otps        == {Empty} \cup {<<Run("1", n)>> : n \in {6, 7}}

(***************************************************************************)
(* The Auth component: user edits and toggles.                             *)
(***************************************************************************)
\* Which form is rendered (lines 142-204).
VerifyForm == useOTP /\ otpSent
SendForm   == useOTP /\ ~otpSent
AuthForm   == ~useOTP

\* onChange of the email input (lines 183, 194); disabled in the verify form.
SetEmail(v) ==
    /\ ~VerifyForm
    /\ email # v
    /\ email' = v
    /\ UNCHANGED <<isLogin, useOTP, password, otp, otpSent, loading, subs, gwVars, mountVars>>

\* onChange of the password input (line 198).
SetPassword(v) ==
    /\ AuthForm
    /\ password # v
    /\ password' = v
    /\ UNCHANGED <<isLogin, useOTP, email, otp, otpSent, loading, subs, gwVars, mountVars>>

\* onChange of InputOTP (line 152).
SetOtp(v) ==
    /\ VerifyForm
    /\ otp # v
    /\ otp' = v
    /\ UNCHANGED <<isLogin, useOTP, email, password, otpSent, loading, subs, gwVars, mountVars>>

\* "Send new code" (lines 171-174).
SendNewCodeKeepsCode ==
    /\ VerifyForm
    /\ otpSent' = FALSE
    /\ UNCHANGED <<isLogin, useOTP, email, password, otp, loading, subs, gwVars, mountVars>>
SendNewCode ==
    /\ VerifyForm
    /\ otpSent' = FALSE
    /\ otp' = Empty
    /\ UNCHANGED <<isLogin, useOTP, email, password, loading, subs, gwVars, mountVars>>

\* "Use password instead" / "Use email code instead" (lines 208-212).
ToggleOTP ==
    /\ useOTP' = ~useOTP
    /\ otpSent' = FALSE
    /\ otp' = Empty
    /\ UNCHANGED <<isLogin, email, password, loading, subs, gwVars, mountVars>>

\* "Don't have an account? Sign up" / "Already have an account? Login" (line 219).
ToggleLogin ==
    /\ ~useOTP
    /\ isLogin' = ~isLogin
    /\ UNCHANGED <<useOTP, email, password, otp, otpSent, loading, subs, gwVars, mountVars>>

(***************************************************************************)
(* The submit handlers.  Each runs from the submit event to its first      *)
(* await in one step (setLoading(true), validation, and then either the    *)
(* provider call, or the catch and finally blocks), and from the settling  *)
(* of the provider call to its end in another.                             *)
(***************************************************************************)
\* handleSendOTP, lines 41-51 and 56-64: the submission it starts.
sendOTPBegin ==
    LET issues == emailIssues(Trim(email)) IN
    IF issues # <<>>
    THEN Rejected("handleSendOTP", <<ValidationToast(issues)>>)
    ELSE Calling("handleSendOTP", "signInWithOtp", Trim(email), Empty)

\* handleVerifyOTP, lines 68-80 and 84-88.
verifyOTPBeginShortOnly ==
    IF StrLen(otp) < OtpLen
    THEN Rejected("handleVerifyOTP",
                  <<Toast("Error", "Please enter a 6-digit code", "destructive")>>)
    ELSE Calling("handleVerifyOTP", "verifyOtp", Trim(email), otp)
verifyOTPBegin ==
    IF StrLen(otp) # OtpLen
    THEN Rejected("handleVerifyOTP",
                  <<Toast("Error", "Please enter a 6-digit code", "destructive")>>)
    ELSE Calling("handleVerifyOTP", "verifyOtp", Trim(email), otp)

\* handleAuth, lines 92-111 and 116-124.
authBegin ==
    LET issues == authSchemaIssues(Trim(email), password) IN
    IF issues # <<>>
    THEN Rejected("handleAuth", <<ValidationToast(issues)>>)
    ELSE Calling("handleAuth", IF isLogin THEN "signInWithPassword" ELSE "signUp",
                 Trim(email), password)

\* setLoading(true) at the start; setLoading(false) in the finally block, which
\* runs in the same step unless the handler is suspended at its call.
Begin(sub) ==
    /\ Len(subs) < MaxSubmissions
    /\ subs' = Append(subs, sub)
    /\ loading' = (sub.status = "pending")
    /\ UNCHANGED <<isLogin, useOTP, email, password, otp, otpSent, gwVars, mountVars>>

\* onSubmit of the three forms (lines 144, 180, 191).
handleSendOTP   == SendForm /\ Begin(sendOTPBegin)
handleVerifyOTP == VerifyForm /\ Begin(verifyOTPBegin)
handleAuth      == AuthForm /\ Begin(authBegin)

\* The toasts a handler makes once its provider call has settled.
\* handleSendOTP, lines 53-61.
sendOTPEnd(sub, out) ==
    IF out.status = "error"
    THEN <<Toast("Error", "Failed to send code", "destructive")>>
    ELSE <<Toast("Code sent!", "Check your email for the verification code", "default")>>

\* handleVerifyOTP, lines 82-85: error.message || "Invalid code".
verifyOTPEnd(sub, out) ==
    IF out.status = "error"
    THEN <<Toast("Error", IF out.message # "" THEN out.message ELSE "Invalid code",
                 "destructive")>>
    ELSE <<Toast("Success!", "Successfully authenticated", "default")>>

\* handleAuth, lines 104-105, 113-114 and 116-121.
authEndSilentSignUp(sub, out) ==
    IF out.status = "error"
    THEN <<Toast("Error", "An error occurred", "destructive")>>
    ELSE IF sub.op = "signInWithPassword"
    THEN <<Toast("Welcome back!", "Successfully logged in", "default")>>
    ELSE <<>>
authEnd(sub, out) ==
    IF out.status = "error"
    THEN <<Toast("Error", "An error occurred", "destructive")>>
    ELSE IF sub.op = "signInWithPassword"
    THEN <<Toast("Welcome back!", "Successfully logged in", "default")>>
    ELSE <<Toast("Account created!", "Welcome to EcoSnap", "default")>>

\* signInWithOtp settles: lines 53-64.
SendOTPSettles ==
    \E i \in Pending("handleSendOTP"), out \in Outcomes :
        /\ subs' = Settle(i, out, sendOTPEnd(subs[i], out))
        /\ otpSent' = IF out.status = "ok" THEN TRUE ELSE otpSent
        /\ loading' = FALSE
        /\ UNCHANGED <<isLogin, useOTP, email, password, otp, gwVars, mountVars>>

\* verifyOtp settles: lines 82-88.
VerifyOTPSettles ==
    \E i \in Pending("handleVerifyOTP"), out \in Outcomes :
        /\ subs' = Settle(i, out, verifyOTPEnd(subs[i], out))
        /\ loading' = FALSE
        /\ UNCHANGED <<isLogin, useOTP, email, password, otp, otpSent, gwVars, mountVars>>

\* signInWithPassword or signUp settles: lines 104-124.
AuthSettles ==
    \E i \in Pending("handleAuth"), out \in Outcomes :
        /\ subs' = Settle(i, out, authEnd(subs[i], out))
        /\ loading' = FALSE
        /\ UNCHANGED <<isLogin, useOTP, email, password, otp, otpSent, gwVars, mountVars>>

AuthInit ==
    /\ isLogin = TRUE
    /\ useOTP = FALSE
    /\ email = Empty
    /\ password = Empty
    /\ otp = Empty
    /\ otpSent = FALSE
    /\ loading = FALSE
    /\ subs = <<>>

AuthNext ==
    \/ \E v \in Emails : SetEmail(v)
    \/ \E v \in Passwords : SetPassword(v)
    \/ \E v \in Otps : SetOtp(v)
    \/ SendNewCode
    \/ ToggleOTP
    \/ ToggleLogin
    \/ handleSendOTP
    \/ handleVerifyOTP
    \/ handleAuth
    \/ SendOTPSettles
    \/ VerifyOTPSettles
    \/ AuthSettles

(***************************************************************************)
(* The forms as the user drives them: a form is submitted through its      *)
(* submit button (a click, or Enter in a field, which goes through the     *)
(* form's default button), so a disabled button gives no submit event.     *)
(* The inputs' native constraints only remove further submit events and    *)
(* are left out.                                                           *)
(***************************************************************************)
\* A second address that passes authSchema.
OtherEmail  == <<Run("a", 1), Run("@", 1), Run("a", 1), Run(".", 1), Run("a", 3)>>
TypedEmails == {Empty, GoodEmail, OtherEmail}

\* disabled={loading} (line 185).
sendButtonNeverDisabled == FALSE
sendButtonDisabled == loading
\* disabled={loading || otp.length !== 6} (line 164).
verifyButtonDisabled == loading \/ StrLen(otp) # OtpLen
\* disabled={loading} (line 200).
authButtonDisabled == loading

SubmitSendForm   == ~sendButtonDisabled /\ handleSendOTP
SubmitVerifyForm == ~verifyButtonDisabled /\ handleVerifyOTP
SubmitAuthForm   == ~authButtonDisabled /\ handleAuth

AuthUINext ==
    \/ \E v \in TypedEmails : SetEmail(v)
    \/ \E v \in Passwords : SetPassword(v)
    \/ \E v \in Otps : SetOtp(v)
    \/ SendNewCode
    \/ ToggleOTP
    \/ ToggleLogin
    \/ SubmitSendForm
    \/ SubmitVerifyForm
    \/ SubmitAuthForm
    \/ SendOTPSettles
    \/ VerifyOTPSettles
    \/ AuthSettles

(***************************************************************************)
(* The mount effect (lines 28-38): getSession().then(...), the             *)
(* onAuthStateChange subscription, and the cleanup that unsubscribes.      *)
(***************************************************************************)
\* The report log is capped: a session change or a rerun of the effect is
\* taken only while the log has room for its reports and for those of the
\* checks still pending, so a pending check can always settle.
MaxEffectRuns == 2
MaxReports    == 3

\* if (session) navigate("/demo"), lines 30 and 34: the navigate calls made.
navigateAlways(s) == 1
navigateIfSession(s) == IF s THEN 1 ELSE 0

Report(via, s) == [via |-> via, session |-> s, navigations |-> navigateIfSession(s)]

\* return () => subscription.unsubscribe(), line 37: the subscriptions left
\* active once the cleanup of effect run r has run.
cleanupNothing(r) == subscriptions
cleanup(r) == subscriptions \ {r}

\* The effect body, run r: getSession() is called (the promise carries the
\* session the provider holds) and a subscription is acquired.
EffectBody(r, active) ==
    /\ effectRuns' = r
    /\ checks' = Append(checks, [session |-> session])
    /\ subscriptions' = active \cup {r}

\* React runs the effect after the first render.
RunEffect ==
    /\ view = "rendered"
    /\ view' = "mounted"
    /\ EffectBody(effectRuns + 1, subscriptions)
    /\ UNCHANGED <<session, reports, gwVars, authVars>>

\* navigate changed (the dependency of line 38): React runs the cleanup of
\* the previous run, then the effect again.
RerunEffect ==
    /\ view = "mounted"
    /\ effectRuns < MaxEffectRuns
    /\ Len(reports) + Len(checks) < MaxReports
    /\ EffectBody(effectRuns + 1, cleanup(effectRuns))
    /\ UNCHANGED <<view, session, reports, gwVars, authVars>>

\* The view is torn down: React runs the cleanup of the last run.
Unmount ==
    /\ view = "mounted"
    /\ view' = "unmounted"
    /\ subscriptions' = cleanup(effectRuns)
    /\ UNCHANGED <<session, effectRuns, checks, reports, gwVars, authVars>>

\* A getSession() promise settles and its .then callback runs (lines 29-31),
\* whether or not the view is still mounted.
GetSessionSettles ==
    /\ checks # <<>>
    /\ \E i \in 1..Len(checks) :
          /\ reports' = Append(reports, Report("getSession", checks[i].session))
          /\ checks' = SubSeq(checks, 1, i - 1) \o SubSeq(checks, i + 1, Len(checks))
    /\ UNCHANGED <<view, session, effectRuns, subscriptions, gwVars, authVars>>

\* The reports of one session-change event: one per active subscription,
\* whose callback runs (lines 33-35).
RECURSIVE Notify(_, _)
Notify(active, s) ==
    IF active = {} THEN <<>>
    ELSE LET r == CHOOSE x \in active : TRUE
         IN  <<Report("onAuthStateChange", s)>> \o Notify(active \ {r}, s)

\* The provider's session changes (sign-in, sign-out, refresh, the initial
\* event after subscribing) and every active subscription is told.
AuthStateChange(s) ==
    /\ Len(reports) + Len(checks) + Cardinality(subscriptions) <= MaxReports
    /\ session' = s
    /\ reports' = reports \o Notify(subscriptions, s)
    /\ UNCHANGED <<view, effectRuns, subscriptions, checks, gwVars, authVars>>

MountInit ==
    /\ view = "rendered"
    /\ session \in BOOLEAN
    /\ effectRuns = 0
    /\ subscriptions = {}
    /\ checks = <<>>
    /\ reports = <<>>

SessionNext ==
    \/ RunEffect
    \/ RerunEffect
    \/ Unmount
    \/ GetSessionSettles
    \/ \E s \in BOOLEAN : AuthStateChange(s)

Init == GatewayInit /\ AuthInit /\ MountInit

\* The serve handler alone.
InitGateway == Init /\ session = FALSE
SpecGateway == InitGateway /\ [][GatewayNext]_vars

\* The Auth component's forms alone, in a deployment that has its API key.
InitWithKey == Init /\ gwKey = TRUE /\ session = FALSE
SpecAuth == InitWithKey /\ [][AuthNext]_vars

\* The Auth component's forms as the user drives them.
SpecAuthUI == InitWithKey /\ [][AuthUINext]_vars

\* The Auth component's mount effect alone.
InitSession == Init /\ gwKey = TRUE
SpecSession == InitSession /\ [][SessionNext]_vars

\* React runs a pending effect and a getSession() promise settles: neither
\* waits for anything the user does.
SpecSessionLive ==
    SpecSession /\ WF_vars(RunEffect) /\ WF_vars(GetSessionSettles)

(***************************************************************************)
(* Classification Gateway: vocabulary of the properties.                   *)
(***************************************************************************)
\* A request that reaches the classify path (not the CORS preflight).
ClassifyRequest == gwReq.method # "" /\ gwReq.method # "OPTIONS"

\* The model output was received and parsed into a JSON value.
ModelOutputParsed ==
    /\ gwUpstream.kind = "response"
    /\ gwUpstream.status >= 200 /\ gwUpstream.status <= 299
    /\ gwUpstream.shape = "text"
    /\ ParseOk(cleanedResponse(gwUpstream.content))

ParsedCategory == JSONParse(cleanedResponse(gwUpstream.content)).category

FourCategories ==
    {JStr("recyclable"), JStr("organic"), JStr("hazardous"), JStr("general")}

IsErrorResponse == gwResp.status >= 400 /\ gwResp.body.kind = "error"

\* The failure kinds of the error taxonomy, read off the error body.
FailureKind(resp) ==
    CASE resp.body.kind # "error" -> "none"
      [] resp.body.error = "No image provided" -> "missing-input"
      [] resp.body.error = "LOVABLE_API_KEY not configured" -> "missing-credential"
      [] resp.body.error = "Rate limit exceeded. Please try again later." -> "rate-limited"
      [] resp.body.error = "AI credits depleted. Please add credits to continue."
            -> "quota-exhausted"
      [] resp.body.error = "AI gateway error" -> "upstream-error"
      [] resp.body.error = "Invalid category returned by AI" -> "invalid-category"
      [] resp.body.error \in {"Unexpected token in JSON", "Cannot read properties"}
            -> "malformed-model-output"
      [] OTHER -> "other"

Retryable(kind)    == kind \in {"rate-limited", "upstream-error"}
NonRetryable(kind) == kind \in {"missing-input", "malformed-model-output", "invalid-category"}

(***************************************************************************)
(* C1: a classify request is answered 200 only when the category parsed    *)
(* from the model output is exactly one of recyclable, organic, hazardous, *)
(* general, and the response carries that very value; when the parsed      *)
(* category is anything else (another string, another case, null, absent)  *)
(* the request ends in an error response.                                  *)
(***************************************************************************)
C1_SuccessOnlyForEnumeratedCategory ==
    (gwPc = "responded" /\ ClassifyRequest) =>
        /\ gwResp.status = 200 =>
              /\ ModelOutputParsed
              /\ ParsedCategory \in FourCategories
              /\ gwResp.body.category = ParsedCategory
        /\ (ModelOutputParsed /\ ParsedCategory \notin FourCategories) =>
              /\ IsErrorResponse
              /\ gwResp.body.category = JUndef

\* A case mismatch ("Recyclable") came back from the model and was rejected.
C1_Witness ==
    /\ gwPc = "responded" /\ ClassifyRequest
    /\ ModelOutputParsed
    /\ ParsedCategory = JStr("Recyclable")
    /\ gwResp.status = 500

(***************************************************************************)
(* C2: every success response has an integer confidence in 0..100 and      *)
(* creditsEarned in the closed range [10, 15], whatever the model returned.*)
(***************************************************************************)
C2_SuccessResultInRange ==
    (gwPc = "responded" /\ gwResp.body.kind = "result") =>
        /\ gwResp.body.confidence.k = "num"
        /\ gwResp.body.confidence.n >= 0 /\ gwResp.body.confidence.n <= 100
        /\ gwResp.body.creditsEarned.k = "num"
        /\ gwResp.body.creditsEarned.n >= 10 /\ gwResp.body.creditsEarned.n <= 15

(***************************************************************************)
(* C3: when the request body has no imageBase64, or an empty one, the      *)
(* request fails with the missing-input error ("No image provided") and no *)
(* call to the external model endpoint is made for it.                     *)
(***************************************************************************)
C3_MissingInputNoCall ==
    (gwPc # "idle" /\ ClassifyRequest /\ gwReq.json
        /\ gwReq.imageBase64 \in {JUndef, JStr("")}) =>
        /\ gwPc = "responded"
        /\ gwFetches = 0
        /\ gwUpstream = NoUpstream
        /\ IsErrorResponse
        /\ FailureKind(gwResp) = "missing-input"

\* An empty imageBase64 was refused.
C3_Witness ==
    /\ gwPc = "responded" /\ ClassifyRequest /\ gwReq.json
    /\ gwReq.imageBase64 = JStr("")
    /\ gwResp.body.error = "No image provided"
    /\ gwFetches = 0

(***************************************************************************)
(* C4: a classify request issues at most one call to the external model    *)
(* endpoint; exactly one when the image and the API credential are both    *)
(* present; and none follows a call that failed (no retry).                *)
(***************************************************************************)
C4_AtMostOneCall ==
    /\ gwFetches <= 1
    /\ (gwPc # "idle" /\ ClassifyRequest /\ gwReq.json
          /\ gwReq.imageBase64.k = "str" /\ gwReq.imageBase64.s # "" /\ gwKey)
            => gwFetches = 1
    /\ (gwPc = "responded" /\ gwUpstream # NoUpstream)
            => (gwFetches = 1 /\ gwResp # NoResponse)

\* The one call failed with a 503 and the request ended there.
C4_Witness ==
    /\ gwPc = "responded"
    /\ gwUpstream.kind = "response" /\ gwUpstream.status = 503
    /\ gwFetches = 1
    /\ gwResp.status = 500

(***************************************************************************)
(* C5: an upstream 429 ends the request as rate-limited with status 429,   *)
(* an upstream 402 as quota-exhausted with status 402; neither returns a   *)
(* success body.                                                           *)
(***************************************************************************)
C5_RateLimitAndQuotaPassThrough ==
    (gwPc = "responded" /\ gwUpstream.kind = "response") =>
        /\ gwUpstream.status = 429 =>
              /\ gwResp.status = 429
              /\ gwResp.body.kind = "error"
              /\ FailureKind(gwResp) = "rate-limited"
        /\ gwUpstream.status = 402 =>
              /\ gwResp.status = 402
              /\ gwResp.body.kind = "error"
              /\ FailureKind(gwResp) = "quota-exhausted"

\* The upstream answered 429 and so did the gateway.
C5_Witness ==
    /\ gwPc = "responded"
    /\ gwUpstream.kind = "response" /\ gwUpstream.status = 429
    /\ gwResp.status = 429

(***************************************************************************)
(* C6: the status code of an error response tells retryable failures       *)
(* (rate-limited, upstream-error) from non-retryable ones (missing-input,  *)
(* malformed-model-output, invalid-category): of two responses, one        *)
(* retryable and one not, the status codes differ.  Stated on two          *)
(* consecutive requests.                                                   *)
(***************************************************************************)
C6_StatusSeparatesRetryable ==
    [][ (gwPc = "responded" /\ gwPc' = "responded"
           /\ Retryable(FailureKind(gwResp))
           /\ NonRetryable(FailureKind(gwResp')))
        => gwResp.status # gwResp'.status ]_vars

(***************************************************************************)
(* Session Gate: vocabulary of the properties.                             *)
(***************************************************************************)
\* This step starts a submission: a submit handler ran up to its first await.
SubmissionStarts == Len(subs') = Len(subs) + 1
Started == subs'[Len(subs')]

\* The submission ended in the handler's own validation: no provider call, and
\* one destructive toast with the given title.
EndedLocally(sub, title) ==
    /\ sub.status = "rejected"
    /\ sub.op = "none"
    /\ Len(sub.toasts) = 1
    /\ sub.toasts[1].title = title
    /\ sub.toasts[1].variant = "destructive"

BadPassword == StrLen(password) < 6 \/ StrLen(password) > 100

(***************************************************************************)
(* C7 (as stated): a password-login, password-signup or passwordless-      *)
(* request submission whose email, as entered, is not a valid address of   *)
(* at most 255 characters, or (password modes) whose password is shorter   *)
(* than 6 or longer than 100 characters, ends with a validation error and  *)
(* issues no call to the identity provider.                                *)
(***************************************************************************)
C7_AsEntered ==
    [][ (SubmissionStarts /\ ~VerifyForm
           /\ (\/ ~IsEmail(email)
               \/ StrLen(email) > 255
               \/ (AuthForm /\ BadPassword)))
        => EndedLocally(Started, "Validation error") ]_vars

(***************************************************************************)
(* C7 (amended): the same, for the email with the white space around it    *)
(* trimmed off: a submission whose trimmed email is not a valid address of *)
(* at most 255 characters, or whose password is out of 6..100 (password    *)
(* modes), ends with a validation error and issues no provider call.       *)
(***************************************************************************)
C7_InvalidNeverReachesProvider ==
    [][ (SubmissionStarts /\ ~VerifyForm
           /\ (\/ ~IsEmail(Trim(email))
               \/ StrLen(Trim(email)) > 255
               \/ (AuthForm /\ BadPassword)))
        => EndedLocally(Started, "Validation error") ]_vars

\* A 256-character address was submitted and refused for its length.
C7_Witness ==
    /\ email = LongEmail
    /\ \E i \in 1..Len(subs) :
          /\ subs[i].handler \in {"handleAuth", "handleSendOTP"}
          /\ EndedLocally(subs[i], "Validation error")
          /\ subs[i].toasts[1].description = "String must contain at most 255 character(s)"

(***************************************************************************)
(* C8: a passwordless-verify submission whose entered code does not have   *)
(* length 6 fails locally with the message "Please enter a 6-digit code"   *)
(* and issues no code-verification call.                                   *)
(***************************************************************************)
C8_WrongLengthCodeFailsLocally ==
    [][ (SubmissionStarts /\ VerifyForm /\ StrLen(otp) # 6)
        => /\ EndedLocally(Started, "Error")
           /\ Started.toasts[1].description = "Please enter a 6-digit code" ]_vars

\* A 7-character code was submitted and refused without a verifyOtp call.
C8_Witness ==
    /\ StrLen(otp) = 7
    /\ \E i \in 1..Len(subs) :
          /\ subs[i].handler = "handleVerifyOTP"
          /\ EndedLocally(subs[i], "Error")
          /\ subs[i].toasts[1].description = "Please enter a 6-digit code"
    /\ \A i \in 1..Len(subs) : subs[i].op # "verifyOtp"

(***************************************************************************)
(* C9: when the identity provider rejects a password-login or password-    *)
(* signup submission, the user is shown the provider's own error message.  *)
(***************************************************************************)
C9_ProviderMessageShown ==
    \A i \in 1..Len(subs) :
        (subs[i].handler = "handleAuth" /\ subs[i].status = "error") =>
            /\ Len(subs[i].toasts) = 1
            /\ subs[i].toasts[1].variant = "destructive"
            /\ subs[i].toasts[1].description = subs[i].message

(***************************************************************************)
(* C10: every submission makes exactly one toast once it is over (success, *)
(* local validation failure, provider failure), and none before that.      *)
(***************************************************************************)
C10_ExactlyOneNotification ==
    \A i \in 1..Len(subs) :
        Len(subs[i].toasts) = (IF subs[i].status = "pending" THEN 0 ELSE 1)

\* A successful submission and a locally refused one, one toast each.
C10_Witness ==
    \E i, j \in 1..Len(subs) :
        /\ subs[i].status = "ok" /\ Len(subs[i].toasts) = 1
        /\ subs[j].status = "rejected" /\ Len(subs[j].toasts) = 1

(***************************************************************************)
(* C11: the gate goes from code-request to code-entry only in a step in    *)
(* which a code-send call succeeds; a send that fails, or is refused       *)
(* locally, leaves a gate in code-request there; a step that returns the   *)
(* gate to code-request ("Send new code", the mode toggle) leaves the      *)
(* entered code empty; and in every state, code-request implies that the   *)
(* entered code is empty.                                                  *)
(***************************************************************************)
SendSucceeds ==
    \E i \in 1..Len(subs) :
        /\ subs[i].handler = "handleSendOTP" /\ subs[i].status = "pending"
        /\ subs'[i].status = "ok"

SendFails ==
    \/ \E i \in 1..Len(subs) :
          /\ subs[i].handler = "handleSendOTP" /\ subs[i].status = "pending"
          /\ subs'[i].status = "error"
    \/ (SubmissionStarts /\ Started.handler = "handleSendOTP"
          /\ Started.status = "rejected")

C11_CodeRequestHasNoCode ==
    /\ [](SendForm => otp = Empty)
    /\ [][ /\ (SendForm /\ VerifyForm') => SendSucceeds
           /\ (SendForm /\ SendFails) => SendForm'
           /\ (~SendForm /\ SendForm') => otp' = Empty ]_vars

\* A code was sent and entered, and the gate is back in code-request.
C11_Witness ==
    /\ SendForm
    /\ otp = Empty
    /\ \E i \in 1..Len(subs) :
          subs[i].handler = "handleSendOTP" /\ subs[i].status = "ok"
    /\ \E i \in 1..Len(subs) :
          subs[i].handler = "handleVerifyOTP" /\ subs[i].op = "verifyOtp"

(***************************************************************************)
(* C12: while the view is mounted at most one subscription to the          *)
(* provider's session changes is active, also after the mount effect has   *)
(* run again; before the effect has run and after teardown none is.        *)
(***************************************************************************)
C12_SubscriptionScopedToView ==
    /\ view = "mounted" => Cardinality(subscriptions) = 1
    /\ view # "mounted" => subscriptions = {}

\* The effect ran twice and the view was torn down: nothing is left subscribed.
C12_Witness ==
    /\ view = "unmounted"
    /\ effectRuns = 2
    /\ subscriptions = {}

(***************************************************************************)
(* C13: every report of a session by the provider, from the mount-time     *)
(* check or from a session-change notification, makes the gate navigate to *)
(* the authenticated area, once; a report of no session makes it navigate  *)
(* nowhere; and a session found by the mount-time check leads to the       *)
(* authenticated area, eventually, in behaviours where nothing is          *)
(* submitted.                                                              *)
(***************************************************************************)
SessionFoundAtMount ==
    \E i \in 1..Len(checks) : checks[i].session

NavigatedFromCheck ==
    \E i \in 1..Len(reports) :
        /\ reports[i].via = "getSession"
        /\ reports[i].session /\ reports[i].navigations = 1

C13_NavigatesOnlyOnSession ==
    /\ [](\A i \in 1..Len(reports) :
            /\ reports[i].session => reports[i].navigations = 1
            /\ ~reports[i].session => reports[i].navigations = 0)
    /\ (SessionFoundAtMount ~> NavigatedFromCheck)

\* The mount-time check found the session and navigated, with nothing
\* submitted; a notification of no session navigated nowhere.
C13_Witness ==
    /\ subs = <<>>
    /\ NavigatedFromCheck
    /\ \E i \in 1..Len(reports) :
          /\ reports[i].via = "onAuthStateChange"
          /\ ~reports[i].session /\ reports[i].navigations = 0

(***************************************************************************)
(* C14: a result whose confidence is an integer c in 0..100 carries        *)
(* creditsEarned = 10 + floor(c * 5 / 100), that is 10 plus one credit for *)
(* each of the marks 20, 40, 60, 80, 100 that c has reached; the value     *)
(* lies in 10..15 and no lower confidence earns more.                      *)
(***************************************************************************)
BonusMarks == {20, 40, 60, 80, 100}

IntegerConfidenceResult ==
    /\ gwPc = "responded"
    /\ gwResp.body.kind = "result"
    /\ gwResp.body.confidence.k = "num"
    /\ gwResp.body.confidence.n \in 0..100

C14_CreditsFormula ==
    IntegerConfidenceResult =>
        LET c == gwResp.body.confidence.n
            earned == gwResp.body.creditsEarned
        IN  /\ earned.k = "num"
            /\ earned.n = 10 + Cardinality({k \in BonusMarks : c >= k})
            /\ 100 * (earned.n - 10) <= c * 5
            /\ c * 5 < 100 * (earned.n - 10 + 1)
            /\ earned.n >= 10 /\ earned.n <= 15
            /\ \A d \in 0..c : creditsEarned(JNum(d)).n <= earned.n

\* The example of the claim: confidence 80 earned 14 credits.
C14_Witness ==
    /\ IntegerConfidenceResult
    /\ gwResp.body.confidence.n = 80
    /\ gwResp.body.creditsEarned = JNum(14)

(***************************************************************************)
(* C15: every code-verification call carries the email of the code-send    *)
(* call whose success opened the code-entry form, that is of the latest    *)
(* successful code-send call before it.                                    *)
(***************************************************************************)
SendsBefore(j) ==
    {i \in 1..(j - 1) : subs[i].handler = "handleSendOTP" /\ subs[i].status = "ok"}

LatestSendBefore(j) ==
    CHOOSE i \in SendsBefore(j) : \A k \in SendsBefore(j) : k <= i

C15_VerifiesTheEmailTheCodeWentTo ==
    \A j \in 1..Len(subs) :
        subs[j].op = "verifyOtp" =>
            /\ SendsBefore(j) # {}
            /\ subs[j].email = subs[LatestSendBefore(j)].email

(***************************************************************************)
(* C16: loading is true exactly while a submission's provider call is      *)
(* pending, whichever form is shown, and at most one provider call is      *)
(* pending at any time; a submit handler that starts sets loading unless   *)
(* it has already finished (a local rejection), and a call that settles    *)
(* resets it.                                                              *)
(***************************************************************************)
InFlight == {i \in 1..Len(subs) : subs[i].status = "pending"}

C16_LoadingIffInFlight ==
    /\ [](loading <=> InFlight # {})
    /\ [](Cardinality(InFlight) <= 1)
    /\ [][ /\ SubmissionStarts => (~loading /\ loading' = (Started.status = "pending"))
           /\ (\E i \in InFlight : subs'[i].status # "pending") => ~loading' ]_vars

\* A code-send call is pending while the user has switched to the password
\* form, after an earlier submission was rejected locally.
C16_Witness ==
    /\ AuthForm
    /\ loading
    /\ \E i \in InFlight : subs[i].handler = "handleSendOTP"
    /\ \E i \in 1..Len(subs) : subs[i].status = "rejected"

=============================================================================
